---- MODULE Spec2Model ----
(***************************************************************************)
(* A model of rayopt's System class (src/rayopt/system.py): the element    *)
(* chain and its in-place operations revert and __add__, the lazy          *)
(* propagation generator and its consumers, the ray-aiming entry point     *)
(* chief_and_marginal, and the optimisation driver optimize.               *)
(***************************************************************************)
EXTENDS Integers, Sequences, FiniteSets, TLC

(***************************************************************************)
(* Bounds of the model.                                                    *)
(***************************************************************************)
NumElems == 3
NumSys == 3
MaxLen == 4
MaxOps == 3
MaxChain == 3
NumParams == 2
NumBundles == 2
NumDemerits == 2
MaxConstraints == 2
MaxCallbacks == 3

Elems == 1..NumElems
Systems == 1..NumSys

VARIABLES
    \* ---- the heap of Systems and Elements (revert, __add__) ----
    elements,      \* [Systems -> Seq(Elems)]: System.elements, a list of Element references
    objMaterial,   \* [Systems -> material]: System.object.material
    imgOrigin,     \* [Systems -> origin]: System.image.origin
    hasMaterial,   \* [Elems -> BOOLEAN]: hasattr(e, "material")
    material,      \* [Elems -> material]: e.material (0 where the attribute is absent)
    origin,        \* [Elems -> origin]: e.origin
    reverted,      \* [Elems -> BOOLEAN]: the parity of the calls of e.revert()
    lastCall,      \* the last operation called and how it ended
    twice,         \* history: the heap before the first of the reverts called in a row
    nOps           \* the number of operations called so far

sysVars == <<elements, objMaterial, imgOrigin, hasMaterial, material, origin,
             reverted, lastCall, twice, nOps>>

VARIABLES
    \* ---- the two orders of evaluating a sum of three Systems ----
    heap0,         \* the element lists before either sum is evaluated
    operands,      \* <<A, B, C>>: the Systems the three operands refer to
    heapL,         \* the element lists while (A + B) + C is evaluated
    heapR,         \* the element lists while A + (B + C) is evaluated
    stepL,         \* how many __add__ calls of (A + B) + C have returned
    stepR,         \* how many __add__ calls of A + (B + C) have returned
    resL,          \* the System the last __add__ of (A + B) + C returned (0: none yet)
    resR           \* the System the last __add__ of A + (B + C) returned (0: none yet)

addVars == <<heap0, operands, heapL, heapR, stepL, stepR, resL, resR>>

VARIABLES
    \* ---- one call of propagate, propagate_through, height_at_aperture or
    \*      chief_and_marginal on one System ----
    chain,         \* Seq of kinds: the classes of the members of System.elements
    template,      \* the positions and angles of the Rays handed to chief_and_marginal
    pcP,           \* "idle", "iterating" (the generator is suspended at a yield), "done"
    opP,           \* the operation called
    genRays,       \* the local variable rays of the generator propagate
    pairs,         \* the pairs the generator has yielded, in order
    calls,         \* the calls b.propagate(rays) made so far: <<position of b, rays>>
    outcome,       \* how the operation ended: "returned" or the exception raised
    result         \* the value returned

propVars == <<chain, template, pcP, opP, genRays, pairs, calls, outcome, result>>

VARIABLES
    \* ---- one call of optimize on one System ----
    val,           \* [1..NumParams -> Values]: what the parameters read and write in the System
    val0,          \* history: val when optimize was called
    equality,      \* Seq of BOOLEAN: c.equality of each member of constraints
    pcO,           \* "idle", "solving" (inside problem.solve), "returned"
    x0,            \* the vector of line 204
    readAt,        \* history: the number of set_value calls made when line 204 ran
    eqs,           \* the list of line 210, as indices into constraints
    ineqs,         \* the list of line 211, as indices into constraints
    nlp,           \* the arguments c and h handed to NLP (lines 220-221)
    solves,        \* the number of calls of problem.solve
    callbacks,     \* the number of calls the solver has made of the three functions
    events,        \* the calls made by the most recent objective_function(x), in order
    lastX,         \* the x of the most recent objective_function(x) (<<>>: none yet)
    sets,          \* the number of set_value calls made
    written,       \* [1..NumParams -> the value last handed to set_value (-1: none yet)]
    conCall,       \* the solver's latest call of a constraint function, if it made one
                   \* since the last objective_function(x); .prev: the function and the
                   \* value of the call before it, and whether its x was another
    res,           \* the result problem.solve returned: res.xf and res.ff
    ret            \* the triple optimize returned

optVars == <<val, val0, equality, pcO, x0, readAt, eqs, ineqs, nlp, solves, callbacks,
             events, lastX, sets, written, conCall, res, ret>>

vars == <<sysVars, addVars, propVars, optVars>>

(***************************************************************************)
(*                         revert and __add__                              *)
(***************************************************************************)

(***************************************************************************)
(* System.elements of every System after construction: every Element is   *)
(* put in the list of one System, in the order of the identities (the      *)
(* identities are interchangeable).                                        *)
(***************************************************************************)
RECURSIVE ListOf(_, _, _)
ListOf(owner, s, e) ==
    IF e > NumElems THEN <<>>
    ELSE IF owner[e] = s THEN <<e>> \o ListOf(owner, s, e + 1)
    ELSE ListOf(owner, s, e + 1)

InitialHeaps == { [s \in Systems |-> ListOf(owner, s, 1)] : owner \in [Elems -> Systems] }

NoTwice == [sys |-> 0, count |-> 0, elements |-> <<>>, objMaterial |-> 0, imgOrigin |-> 0,
            material |-> <<>>, origin |-> <<>>, reverted |-> <<>>]

NoCall == [op |-> "none", sys |-> 0, raised |-> "none"]

(***************************************************************************)
(* revert, lines 40-42: the loop that hands every element that has a       *)
(* material attribute the material of the one before it; m starts as the   *)
(* object's material.  mat is the heap of e.material, updated in place.    *)
(***************************************************************************)
RECURSIVE RotateMaterials(_, _, _, _, _)
RotateMaterials(es, i, m, mat, has) ==
    IF i > Len(es) THEN mat
    ELSE IF has[es[i]]
         THEN RotateMaterials(es, i + 1, mat[es[i]], [mat EXCEPT ![es[i]] = m], has)
         ELSE RotateMaterials(es, i + 1, m, mat, has)

(***************************************************************************)
(* list.reverse(), line 45.                                                *)
(***************************************************************************)
Reverse(es) == [i \in 1..Len(es) |-> es[Len(es) + 1 - i]]

(***************************************************************************)
(* revert, lines 46-48: over the reversed list, e.revert() and the swap of *)
(* d with e.origin; d starts as the image's origin.  The state is the pair *)
(* of heaps <<origin, reverted>>.                                          *)
(***************************************************************************)
RECURSIVE SwapOrigins(_, _, _, _, _)
SwapOrigins(es, i, d, org, rev) ==
    IF i > Len(es) THEN <<org, rev>>
    ELSE SwapOrigins(es, i + 1, org[es[i]], [org EXCEPT ![es[i]] = d],
                     [rev EXCEPT ![es[i]] = ~@])

(***************************************************************************)
(* The exception line 39 raises, if any: self.elements[-1] of an empty     *)
(* list, or .material of an element that has no such attribute.            *)
(***************************************************************************)
RevertRaises(es, has) ==
    IF Len(es) = 0 THEN "IndexError"
    ELSE IF ~has[es[Len(es)]] THEN "AttributeError"
    ELSE "none"

(***************************************************************************)
(* The history of reverts called in a row on one System.                   *)
(***************************************************************************)
Snapshot(s) ==
    [sys |-> s, count |-> 1, elements |-> elements[s], objMaterial |-> objMaterial[s],
     imgOrigin |-> imgOrigin[s], material |-> material, origin |-> origin,
     reverted |-> reverted]

(***************************************************************************)
(* System.revert, lines 37-48.  An exception of line 39 leaves the System  *)
(* as it was: line 38 has only read.                                       *)
(***************************************************************************)
Revert(s) ==
    /\ nOps < MaxOps
    /\ nOps' = nOps + 1
    /\ LET es == elements[s]
           raised == RevertRaises(es, hasMaterial)
       IN
       /\ lastCall' = [op |-> "revert", sys |-> s, raised |-> raised]
       /\ twice' = IF twice.sys = s /\ twice.count = 1
                   THEN [twice EXCEPT !.count = 2]
                   ELSE Snapshot(s)
       /\ hasMaterial' = hasMaterial
       /\ IF raised # "none"
          THEN UNCHANGED <<elements, objMaterial, imgOrigin, material, origin, reverted>>
          ELSE LET swapped == SwapOrigins(Reverse(es), 1, imgOrigin[s], origin, reverted)
               IN
               /\ objMaterial' = [objMaterial EXCEPT ![s] = material[es[Len(es)]]]
               /\ material' = RotateMaterials(es, 1, objMaterial[s], material, hasMaterial)
               /\ imgOrigin' = [imgOrigin EXCEPT ![s] = origin[es[1]]]
               /\ elements' = [elements EXCEPT ![s] = Reverse(es)]
               /\ origin' = swapped[1]
               /\ reverted' = swapped[2]
    /\ UNCHANGED <<addVars, propVars, optVars>>

(***************************************************************************)
(* System.__add__, lines 50-52: self.elements += other.elements extends    *)
(* the list of self in place with the references held by other, whose list *)
(* stays as it is; the result is self.                                     *)
(***************************************************************************)
\* An __add__ that puts the elements of other before those of self.
AddElementsInFront(heap, s, t) == [heap EXCEPT ![s] = heap[t] \o heap[s]]

AddElements(heap, s, t) == [heap EXCEPT ![s] = heap[s] \o heap[t]]

Add(s, t) ==
    /\ nOps < MaxOps
    /\ Len(elements[s]) + Len(elements[t]) <= MaxLen
    /\ nOps' = nOps + 1
    /\ elements' = AddElements(elements, s, t)
    /\ lastCall' = [op |-> "add", sys |-> s, raised |-> "none"]
    /\ twice' = NoTwice
    /\ UNCHANGED <<objMaterial, imgOrigin, hasMaterial, material, origin, reverted>>
    /\ UNCHANGED <<addVars, propVars, optVars>>

(***************************************************************************)
(* Systems as constructed, with disjoint element lists; then any calls of  *)
(* revert and __add__.  Every material and every origin is a value of its  *)
(* own, so that a value in the wrong place shows.                          *)
(***************************************************************************)
Init ==
    /\ elements \in InitialHeaps
    /\ hasMaterial \in [Elems -> BOOLEAN]
    /\ material = [e \in Elems |-> IF hasMaterial[e] THEN e ELSE 0]
    /\ objMaterial = [s \in Systems |-> NumElems + s]
    /\ origin = [e \in Elems |-> e]
    /\ imgOrigin = [s \in Systems |-> NumElems + s]
    /\ reverted = [e \in Elems |-> FALSE]
    /\ lastCall = NoCall
    /\ twice = NoTwice
    /\ nOps = 0
    /\ heap0 = <<>> /\ operands = <<>> /\ heapL = <<>> /\ heapR = <<>>
    /\ stepL = 0 /\ stepR = 0 /\ resL = 0 /\ resR = 0
    /\ chain = <<>> /\ template = <<>> /\ pcP = "off" /\ opP = "none"
    /\ genRays = <<>> /\ pairs = <<>> /\ calls = <<>>
    /\ outcome = "none" /\ result = <<>>
    /\ val = <<>> /\ val0 = <<>> /\ equality = <<>> /\ pcO = "off" /\ x0 = <<>>
    /\ readAt = 0 /\ eqs = <<>> /\ ineqs = <<>> /\ nlp = <<>> /\ solves = 0
    /\ callbacks = 0 /\ events = <<>> /\ lastX = <<>> /\ sets = 0 /\ written = <<>>
    /\ conCall = <<>> /\ res = <<>> /\ ret = <<>>

Next ==
    \/ \E s \in Systems : Revert(s)
    \/ \E s, t \in Systems : Add(s, t)

Spec == Init /\ [][Next]_vars

(***************************************************************************)
(* The sum of three Systems, evaluated in both orders from the same lists. *)
(* __add__ returns self (line 52), so the left operand of the outer sum of *)
(* (A + B) + C is A, and the right operand of the outer sum of A + (B + C) *)
(* is B.  The operands may refer to the same System.                       *)
(***************************************************************************)

\* (A + B) + C: A.__add__(B)
LeftInner ==
    /\ stepL = 0
    /\ heapL' = AddElements(heapL, operands[1], operands[2])
    /\ resL' = operands[1]
    /\ stepL' = 1
    /\ UNCHANGED <<heap0, operands, heapR, stepR, resR>>
    /\ UNCHANGED <<sysVars, propVars, optVars>>

\* (A + B) + C: (the System A.__add__(B) returned).__add__(C)
LeftOuter ==
    /\ stepL = 1
    /\ heapL' = AddElements(heapL, resL, operands[3])
    /\ resL' = resL
    /\ stepL' = 2
    /\ UNCHANGED <<heap0, operands, heapR, stepR, resR>>
    /\ UNCHANGED <<sysVars, propVars, optVars>>

\* A + (B + C): B.__add__(C)
RightInner ==
    /\ stepR = 0
    /\ heapR' = AddElements(heapR, operands[2], operands[3])
    /\ resR' = operands[2]
    /\ stepR' = 1
    /\ UNCHANGED <<heap0, operands, heapL, stepL, resL>>
    /\ UNCHANGED <<sysVars, propVars, optVars>>

\* A + (B + C): A.__add__(the System B.__add__(C) returned)
RightOuter ==
    /\ stepR = 1
    /\ heapR' = AddElements(heapR, operands[1], resR)
    /\ resR' = operands[1]
    /\ stepR' = 2
    /\ UNCHANGED <<heap0, operands, heapL, stepL, resL>>
    /\ UNCHANGED <<sysVars, propVars, optVars>>

InitAdd ==
    /\ heap0 \in InitialHeaps
    /\ operands \in Systems \X Systems \X Systems
    /\ heapL = heap0
    /\ heapR = heap0
    /\ stepL = 0 /\ stepR = 0 /\ resL = 0 /\ resR = 0
    /\ elements = <<>> /\ objMaterial = <<>> /\ imgOrigin = <<>> /\ hasMaterial = <<>>
    /\ material = <<>> /\ origin = <<>> /\ reverted = <<>>
    /\ lastCall = NoCall /\ twice = NoTwice /\ nOps = 0
    /\ chain = <<>> /\ template = <<>> /\ pcP = "off" /\ opP = "none"
    /\ genRays = <<>> /\ pairs = <<>> /\ calls = <<>>
    /\ outcome = "none" /\ result = <<>>
    /\ val = <<>> /\ val0 = <<>> /\ equality = <<>> /\ pcO = "off" /\ x0 = <<>>
    /\ readAt = 0 /\ eqs = <<>> /\ ineqs = <<>> /\ nlp = <<>> /\ solves = 0
    /\ callbacks = 0 /\ events = <<>> /\ lastX = <<>> /\ sets = 0 /\ written = <<>>
    /\ conCall = <<>> /\ res = <<>> /\ ret = <<>>

NextAdd ==
    \/ LeftInner
    \/ LeftOuter
    \/ RightInner
    \/ RightOuter

SpecAdd == InitAdd /\ [][NextAdd]_vars

(***************************************************************************)
(*       propagate, propagate_through, height_at_aperture,                 *)
(*       chief_and_marginal                                                *)
(***************************************************************************)

(***************************************************************************)
(* The names bound in the module's namespace when a method of System runs: *)
(* the imports of lines 19-25 and the class of line 27.                    *)
(***************************************************************************)
ModuleGlobals ==
    {"np", "HasTraits", "Str", "Array", "Float", "Instance", "List",
     "newton", "fsolve", "Element", "Object", "Image", "Rays", "ParaxialTrace", "System"}

(***************************************************************************)
(* isinstance(e, <name>) as the methods of System evaluate it (lines 123,  *)
(* 140, 146-147): the name is looked up in the module's namespace first,   *)
(* and a name that is not bound there raises NameError.                    *)
(***************************************************************************)
IsInstance(kind, name) ==
    IF name \notin ModuleGlobals THEN "NameError"
    ELSE IF kind = name THEN "True"
    ELSE "False"

Kinds == {"Surface", "Aperture"}

Chains == UNION { [1..n -> Kinds] : n \in 0..MaxChain }

(***************************************************************************)
(* The chain [self.object] + self.elements + [self.image], by position:    *)
(* 0 is the Object, 1..n the elements, n + 1 the Image.                    *)
(***************************************************************************)
KindAt(ch, p) ==
    IF p = 0 THEN "Object"
    ELSE IF p = Len(ch) + 1 THEN "Image"
    ELSE ch[p]

(***************************************************************************)
(* The Rays handed to an operation: they have passed no element and have   *)
(* no end positions yet.                                                   *)
(***************************************************************************)
InputRays == [path |-> <<>>, ended |-> -1]

(***************************************************************************)
(* b.propagate(rays), as line 129 uses it: the pair of the rays handed in, *)
(* now ended on b, and the rays that leave b.  Every element gives rays of *)
(* its own, so that the rays say which elements they passed, in order.     *)
(***************************************************************************)
ElementPropagate(b, rays) ==
    <<[rays EXCEPT !.ended = b], [path |-> Append(rays.path, b), ended |-> -1]>>

\* A generator that yields b where line 130 yields a.
PropagateStepYieldsB(k, rays) ==
    LET r == ElementPropagate(k, rays) IN
    [yield |-> <<k, r[1]>>, rays |-> r[2], call |-> <<k, rays>>]

(***************************************************************************)
(* propagate, lines 127-130: the k-th pass of the loop over                *)
(* zip([object] + elements, elements + [image]), k in 1..n+1: a is at      *)
(* position k - 1 and b at position k.                                     *)
(***************************************************************************)
PropagateStep(k, rays) ==
    LET r == ElementPropagate(k, rays) IN
    [yield |-> <<k - 1, r[1]>>, rays |-> r[2], call |-> <<k, rays>>]

(***************************************************************************)
(* propagate, line 131: after the loop, b is the Image.                    *)
(***************************************************************************)
PropagateLast(n, rays) == <<n + 1, rays>>

(***************************************************************************)
(* A call of one of the three operations that iterate over propagate(rays) *)
(* (lines 134, 139, or a caller's own loop): the generator is created and  *)
(* has run nothing yet.                                                    *)
(***************************************************************************)
Iterate(op) ==
    /\ pcP = "idle"
    /\ pcP' = "iterating"
    /\ opP' = op
    /\ genRays' = InputRays
    /\ UNCHANGED <<chain, template, pairs, calls, outcome, result>>
    /\ UNCHANGED <<sysVars, addVars, optVars>>

(***************************************************************************)
(* The generator runs to its next yield (lines 127-131), and the body of   *)
(* the loop that iterates over it runs on the pair: pass (line 135, or a   *)
(* caller that takes every pair), or the test and return of lines 140-141. *)
(***************************************************************************)
Yield ==
    /\ pcP = "iterating"
    /\ Len(pairs) < Len(chain) + 2
    /\ LET k == Len(pairs) + 1
           inLoop == k <= Len(chain) + 1
           step == PropagateStep(k, genRays)
           pair == IF inLoop THEN step.yield ELSE PropagateLast(Len(chain), genRays)
           test == IF opP = "height_at_aperture"
                   THEN IsInstance(KindAt(chain, pair[1]), "Aperture")
                   ELSE "False"
       IN
       /\ pairs' = Append(pairs, pair)
       /\ genRays' = IF inLoop THEN step.rays ELSE genRays
       /\ calls' = IF inLoop THEN Append(calls, step.call) ELSE calls
       /\ CASE test = "NameError" ->
                 /\ pcP' = "done"
                 /\ outcome' = "NameError"
                 /\ result' = <<>>
            [] test = "True" ->
                 \* line 141: in_rays.end_positions[...,(0,1)]/element.radius
                 /\ pcP' = "done"
                 /\ outcome' = "returned"
                 /\ result' = [endPositionsOf |-> pair[2], radiusOf |-> pair[1]]
            [] OTHER ->
                 UNCHANGED <<pcP, outcome, result>>
    /\ UNCHANGED <<chain, template, opP>>
    /\ UNCHANGED <<sysVars, addVars, optVars>>

(***************************************************************************)
(* The generator is exhausted and the loop ends: propagate_through returns *)
(* its loop variable rays, the rays of the last pair (line 136);           *)
(* height_at_aperture falls off its end and returns None.                  *)
(***************************************************************************)
Exhausted ==
    /\ pcP = "iterating"
    /\ Len(pairs) = Len(chain) + 2
    /\ pcP' = "done"
    /\ outcome' = IF opP = "height_at_aperture" THEN "returned None" ELSE "returned"
    /\ result' = IF opP = "propagate_through" THEN pairs[Len(pairs)][2] ELSE <<>>
    /\ UNCHANGED <<chain, template, opP, genRays, pairs, calls>>
    /\ UNCHANGED <<sysVars, addVars, optVars>>

(***************************************************************************)
(* chief_and_marginal, lines 146-147: the assertion counts the members of  *)
(* self.elements for which isinstance(e, Aperture) holds.  The generator   *)
(* expression evaluates the test on the first element, if there is one.    *)
(***************************************************************************)
RECURSIVE CountApertures(_, _)
CountApertures(ch, i) ==
    IF i > Len(ch) THEN [raised |-> "none", count |-> 0]
    ELSE LET test == IsInstance(ch[i], "Aperture")
             rest == CountApertures(ch, i + 1)
         IN IF test = "NameError" THEN [raised |-> "NameError", count |-> 0]
            ELSE IF rest.raised # "none" THEN rest
            ELSE [raised |-> "none", count |-> rest.count + (IF test = "True" THEN 1 ELSE 0)]

(***************************************************************************)
(* System.chief_and_marginal, lines 143-179.  Lines 149-179 (stop_for_pos  *)
(* and the aiming) run only when the assertion of lines 146-147 passes,    *)
(* which needs isinstance(e, Aperture) to evaluate.                        *)
(***************************************************************************)
ChiefAndMarginal ==
    /\ pcP = "idle"
    /\ opP' = "chief_and_marginal"
    /\ pcP' = "done"
    /\ LET counted == CountApertures(chain, 1) IN
       outcome' = IF counted.raised # "none" THEN counted.raised
                  ELSE IF counted.count # 1 THEN "AssertionError"
                  ELSE "aiming"
    /\ UNCHANGED <<chain, template, genRays, pairs, calls, result>>
    /\ UNCHANGED <<sysVars, addVars, optVars>>

InitProp ==
    /\ chain \in Chains
    /\ template = [positions |-> "template", angles |-> "template"]
    /\ pcP = "idle" /\ opP = "none"
    /\ genRays = <<>> /\ pairs = <<>> /\ calls = <<>>
    /\ outcome = "none" /\ result = <<>>
    /\ elements = <<>> /\ objMaterial = <<>> /\ imgOrigin = <<>> /\ hasMaterial = <<>>
    /\ material = <<>> /\ origin = <<>> /\ reverted = <<>>
    /\ lastCall = NoCall /\ twice = NoTwice /\ nOps = 0
    /\ heap0 = <<>> /\ operands = <<>> /\ heapL = <<>> /\ heapR = <<>>
    /\ stepL = 0 /\ stepR = 0 /\ resL = 0 /\ resR = 0
    /\ val = <<>> /\ val0 = <<>> /\ equality = <<>> /\ pcO = "off" /\ x0 = <<>>
    /\ readAt = 0 /\ eqs = <<>> /\ ineqs = <<>> /\ nlp = <<>> /\ solves = 0
    /\ callbacks = 0 /\ events = <<>> /\ lastX = <<>> /\ sets = 0 /\ written = <<>>
    /\ conCall = <<>> /\ res = <<>> /\ ret = <<>>

NextProp ==
    \/ \E op \in {"propagate", "propagate_through", "height_at_aperture"} : Iterate(op)
    \/ Yield
    \/ Exhausted
    \/ ChiefAndMarginal

SpecProp == InitProp /\ [][NextProp]_vars

(***************************************************************************)
(*                               optimize                                  *)
(***************************************************************************)

(***************************************************************************)
(* The values a parameter can take, and the vectors x the solver can hand  *)
(* to the functions it calls.  Two values tell any two vectors apart.      *)
(***************************************************************************)
Values == {0, 1}

Vectors == [1..NumParams -> Values]

TagLists == UNION { [1..n -> BOOLEAN] : n \in 0..MaxConstraints }

(***************************************************************************)
(* parameters[i].get_value(self) and parameters[i].set_value(self, xi)     *)
(* (lines 198, 204, 233): the accessor pair of parameter i reads and       *)
(* writes the part of the System that is the parameter's.                  *)
(***************************************************************************)
GetValue(v, i) == v[i]

SetValue(v, i, xi) == [v EXCEPT ![i] = xi]

(***************************************************************************)
(* The loop of lines 197-198 and of lines 232-233, from parameter i on:    *)
(* set_value of every parameter, in the order of parameters.  The state is *)
(* the System, the calls made, and the values last written.                *)
(***************************************************************************)
RECURSIVE SetAll(_, _, _, _)
SetAll(st, x, i, n) ==
    IF i > n THEN st
    ELSE SetAll([val |-> SetValue(st.val, i, x[i]),
                 events |-> Append(st.events, [ev |-> "set_value", arg |-> i, value |-> x[i],
                                               system |-> <<>>]),
                 written |-> [st.written EXCEPT ![i] = x[i]]],
                x, i + 1, n)

TraceEvent(v) == <<[ev |-> "paraxial_trace", arg |-> 0, value |-> 0, system |-> v]>>

PropagateEvents(v) ==
    [k \in 1..NumBundles |-> [ev |-> "propagate_through", arg |-> k, value |-> 0, system |-> v]]

DemeritEvents(v) ==
    [j \in 1..NumDemerits |-> [ev |-> "demerit", arg |-> j, value |-> 0, system |-> v]]

\* An objective function that recomputes the paraxial trace before it writes x.
ObjectiveFunctionTraceFirst(v, w, x) ==
    LET st == SetAll([val |-> v, events |-> TraceEvent(v), written |-> w], x, 1, NumParams)
    IN [st EXCEPT !.events = @ \o PropagateEvents(st.val) \o DemeritEvents(st.val)]

(***************************************************************************)
(* objective_function(x), lines 196-202, on the System v: the calls it     *)
(* makes, each with the System it runs on, and the System it leaves.       *)
(***************************************************************************)
ObjectiveFunction(v, w, x) ==
    LET st == SetAll([val |-> v, events |-> <<>>, written |-> w], x, 1, NumParams)
    IN [st EXCEPT !.events = @ \o TraceEvent(st.val) \o PropagateEvents(st.val)
                                 \o DemeritEvents(st.val)]

\* A partition that puts every constraint in both lists.
PartitionIgnoringTag(tags, eq, k) ==
    [i \in 1..Len(tags) |-> i]

(***************************************************************************)
(* Lines 210-211: [c for c in constraints if c.equality] (eq = TRUE) and   *)
(* [c for c in constraints if not c.equality] (eq = FALSE), from           *)
(* constraint k on.                                                        *)
(***************************************************************************)
RECURSIVE Partition(_, _, _)
Partition(tags, eq, k) ==
    IF k > Len(tags) THEN <<>>
    ELSE IF tags[k] = eq THEN <<k>> \o Partition(tags, eq, k + 1)
    ELSE Partition(tags, eq, k + 1)

(***************************************************************************)
(* c(self) for constraint k: a vector that depends on the constraint and   *)
(* on the System it is evaluated on.                                       *)
(***************************************************************************)
ConstraintValue(k, v) == <<[constraint |-> k, system |-> v]>>

(***************************************************************************)
(* equality_constraints(x) and inequality_constraints(x), lines 213-216:   *)
(* np.concatenate([c(self) for c in members]), from member i on; x is not  *)
(* read.                                                                   *)
(***************************************************************************)
RECURSIVE ConstraintFunction(_, _, _, _)
ConstraintFunction(members, v, x, i) ==
    IF i > Len(members) THEN <<>>
    ELSE ConstraintValue(members[i], v) \o ConstraintFunction(members, v, x, i + 1)

(***************************************************************************)
(* Lines 220-221: "members and function or None".                          *)
(***************************************************************************)
NlpArgument(members, function) ==
    IF members # <<>> THEN function ELSE "None"

NoConCall == [f |-> "none", x |-> <<>>, value |-> <<>>, system |-> <<>>, sets |-> 0,
              prev |-> [f |-> "none", value |-> <<>>, otherX |-> FALSE]]

(***************************************************************************)
(* optimize, lines 204-229, up to the call of problem.solve.               *)
(***************************************************************************)
Optimize ==
    /\ pcO = "idle"
    /\ pcO' = "solving"
    /\ x0' = [i \in 1..NumParams |-> GetValue(val, i)]
    /\ readAt' = sets
    /\ eqs' = Partition(equality, TRUE, 1)
    /\ ineqs' = Partition(equality, FALSE, 1)
    /\ nlp' = [c |-> NlpArgument(Partition(equality, FALSE, 1), "inequality_constraints"),
               h |-> NlpArgument(Partition(equality, TRUE, 1), "equality_constraints")]
    /\ solves' = solves + 1
    /\ UNCHANGED <<val, val0, equality, callbacks, events, lastX, sets, written, conCall,
                   res, ret>>
    /\ UNCHANGED <<sysVars, addVars, propVars>>

(***************************************************************************)
(* The solver calls objective_function(x), for an x of its choice.         *)
(***************************************************************************)
SolverEvaluates(x) ==
    /\ pcO = "solving"
    /\ callbacks < MaxCallbacks
    /\ callbacks' = callbacks + 1
    /\ LET done == ObjectiveFunction(val, written, x) IN
       /\ val' = done.val
       /\ events' = done.events
       /\ written' = done.written
    /\ sets' = sets + NumParams
    /\ lastX' = x
    /\ conCall' = NoConCall
    /\ UNCHANGED <<val0, equality, pcO, x0, readAt, eqs, ineqs, nlp, solves, res, ret>>
    /\ UNCHANGED <<sysVars, addVars, propVars>>

(***************************************************************************)
(* The solver calls the function it was handed as h (equality_constraints) *)
(* or as c (inequality_constraints), if it was handed one, for an x of its *)
(* choice.                                                                 *)
(***************************************************************************)
SolverConstrains(f, x) ==
    /\ pcO = "solving"
    /\ callbacks < MaxCallbacks
    /\ f \in {nlp.c, nlp.h}
    /\ callbacks' = callbacks + 1
    /\ LET members == IF f = "equality_constraints" THEN eqs ELSE ineqs IN
       conCall' = [f |-> f, x |-> x, value |-> ConstraintFunction(members, val, x, 1),
                   system |-> val, sets |-> sets,
                   prev |-> [f |-> conCall.f, value |-> conCall.value,
                             otherX |-> conCall.f # "none" /\ conCall.x # x]]
    /\ UNCHANGED <<val, val0, equality, pcO, x0, readAt, eqs, ineqs, nlp, solves, events,
                   lastX, sets, written, res, ret>>
    /\ UNCHANGED <<sysVars, addVars, propVars>>

\* A write-back that leaves the System as the last objective evaluation left it.
WriteBackNothing(v, w, x) ==
    [val |-> v, events |-> <<>>, written |-> w]

(***************************************************************************)
(* Lines 232-233: the write-back of the solver's vector.                   *)
(***************************************************************************)
WriteBack(v, w, x) ==
    SetAll([val |-> v, events |-> <<>>, written |-> w], x, 1, NumParams)

(***************************************************************************)
(* problem.solve returns res with res.xf = xf and res.ff = ff, any vector  *)
(* and any value; optimize writes xf back and returns (lines 229-234).     *)
(***************************************************************************)
SolverReturns(xf, ff) ==
    /\ pcO = "solving"
    /\ pcO' = "returned"
    /\ LET back == WriteBack(val, written, xf) IN
       /\ val' = back.val
       /\ written' = back.written
       /\ sets' = sets + Len(back.events)
    /\ res' = [xf |-> xf, ff |-> ff]
    /\ ret' = <<x0, xf, ff>>
    /\ conCall' = NoConCall
    /\ UNCHANGED <<val0, equality, x0, readAt, eqs, ineqs, nlp, solves, callbacks, events,
                   lastX>>
    /\ UNCHANGED <<sysVars, addVars, propVars>>

(***************************************************************************)
(* A System as constructed, whose parameters all hold the value 0, and any *)
(* list of constraints; then one call of optimize, with a solver that is   *)
(* free in the calls it makes and in the result it returns.                *)
(***************************************************************************)
InitOpt ==
    /\ val = [i \in 1..NumParams |-> 0]
    /\ val0 = val
    /\ equality \in TagLists
    /\ pcO = "idle"
    /\ x0 = <<>> /\ readAt = 0 /\ eqs = <<>> /\ ineqs = <<>>
    /\ nlp = [c |-> "None", h |-> "None"]
    /\ solves = 0 /\ callbacks = 0 /\ events = <<>> /\ lastX = <<>> /\ sets = 0
    /\ written = [i \in 1..NumParams |-> -1]
    /\ conCall = NoConCall
    /\ res = <<>>
    /\ ret = <<>>
    /\ elements = <<>> /\ objMaterial = <<>> /\ imgOrigin = <<>> /\ hasMaterial = <<>>
    /\ material = <<>> /\ origin = <<>> /\ reverted = <<>>
    /\ lastCall = NoCall /\ twice = NoTwice /\ nOps = 0
    /\ heap0 = <<>> /\ operands = <<>> /\ heapL = <<>> /\ heapR = <<>>
    /\ stepL = 0 /\ stepR = 0 /\ resL = 0 /\ resR = 0
    /\ chain = <<>> /\ template = <<>> /\ pcP = "off" /\ opP = "none"
    /\ genRays = <<>> /\ pairs = <<>> /\ calls = <<>>
    /\ outcome = "none" /\ result = <<>>

NextOpt ==
    \/ Optimize
    \/ \E x \in Vectors : SolverEvaluates(x)
    \/ \E f \in {"equality_constraints", "inequality_constraints"}, x \in Vectors :
          SolverConstrains(f, x)
    \/ \E xf \in Vectors, ff \in Values : SolverReturns(xf, ff)

SpecOpt == InitOpt /\ [][NextOpt]_vars

(***************************************************************************)
(*                              Claims                                     *)
(***************************************************************************)

(***************************************************************************)
(* The state of System s, as revert reads and writes it.                   *)
(***************************************************************************)
Restored ==
    LET s == twice.sys IN
    /\ elements[s] = twice.elements
    /\ objMaterial[s] = twice.objMaterial
    /\ imgOrigin[s] = twice.imgOrigin
    /\ \A i \in 1..Len(twice.elements) :
          LET e == twice.elements[i] IN
          /\ material[e] = twice.material[e]
          /\ origin[e] = twice.origin[e]
          /\ reverted[e] = twice.reverted[e]

\* C1: revert() called twice in a row on a System that has at least one element
\* restores the order of the elements, every element's origin and material, the
\* image's origin and the object's material.
RevertTwiceRestores ==
    (twice.count = 2 /\ Len(twice.elements) >= 1) => Restored

\* C8: no Element is a member of the element lists of two distinct Systems.
NoSharedElement ==
    \A s, t \in Systems :
        s # t => \A i \in 1..Len(elements[s]) : \A j \in 1..Len(elements[t]) :
                    elements[s][i] # elements[t][j]

BothSummed == stepL = 2 /\ stepR = 2

\* C2: for Systems A, B, C with element lists a, b, c (A a System other than B
\* and C), the element lists of the results of (A + B) + C and of A + (B + C)
\* are both a followed by b followed by c.
AddAssociative ==
    (BothSummed /\ operands[1] # operands[2] /\ operands[1] # operands[3]) =>
        LET abc == heap0[operands[1]] \o heap0[operands[2]] \o heap0[operands[3]] IN
        /\ heapL[resL] = abc
        /\ heapR[resR] = abc

\* C2's case: three distinct Systems, each with elements, summed in both orders.
AddAssociativeWitness ==
    /\ BothSummed
    /\ Cardinality({operands[1], operands[2], operands[3]}) = 3
    /\ \A k \in 1..3 : Len(heap0[operands[k]]) >= 1

(***************************************************************************)
(* The number of Aperture-typed elements of the chain; the Object and the  *)
(* Image are none.                                                         *)
(***************************************************************************)
NumApertures(ch) == Cardinality({i \in 1..Len(ch) : ch[i] = "Aperture"})

FirstAperture(ch) == CHOOSE i \in 1..Len(ch) : ch[i] = "Aperture" /\ \A j \in 1..(i - 1) : ch[j] # "Aperture"

Drained == pcP = "done" /\ opP \in {"propagate", "propagate_through"}

\* C5: one full propagate(rays) over n elements yields n + 2 pairs whose elements
\* are the Object, element 1, ..., element n, the Image, in that order; the rays
\* fed to each element's propagate are those the element before it put out; and
\* propagate_through returns the rays of the last pair, the Image's.
PropagateInChainOrder ==
    opP \in {"propagate", "propagate_through"} =>
        /\ \A k \in 1..Len(pairs) : pairs[k][1] = k - 1
        /\ \A k \in 1..Len(calls) :
              /\ calls[k][1] = k
              /\ calls[k][2] = IF k = 1 THEN InputRays
                               ELSE ElementPropagate(k - 1, calls[k - 1][2])[2]
        /\ Drained =>
              /\ Len(pairs) = Len(chain) + 2
              /\ Len(calls) = Len(chain) + 1
              /\ KindAt(chain, pairs[1][1]) = "Object"
              /\ KindAt(chain, pairs[Len(pairs)][1]) = "Image"
              /\ pairs[Len(pairs)][2] = ElementPropagate(Len(chain) + 1, calls[Len(calls)][2])[2]
        /\ (Drained /\ opP = "propagate_through") =>
              /\ outcome = "returned"
              /\ result = pairs[Len(pairs)][2]

\* C5's case: propagate_through has returned on a chain of two elements or more.
PropagateInChainOrderWitness ==
    /\ pcP = "done" /\ opP = "propagate_through" /\ outcome = "returned"
    /\ Len(chain) >= 2
    /\ result.path = <<1, 2>> \o [i \in 1..(Len(chain) - 1) |-> i + 2]

\* C3: on a chain with no Aperture-typed element, or with two or more,
\* chief_and_marginal fails with an assertion error, before any ray is launched
\* or propagated, and leaves the positions and angles of the Rays as they were.
ChiefAndMarginalAsserts ==
    (pcP = "done" /\ opP = "chief_and_marginal" /\ NumApertures(chain) # 1) =>
        /\ outcome = "AssertionError"
        /\ calls = <<>>
        /\ template = [positions |-> "template", angles |-> "template"]

\* C4: height_at_aperture returns a value exactly when the chain holds an
\* Aperture-typed element: then the end positions of the rays paired with the
\* first one, divided by its radius; otherwise the whole chain is walked and
\* None is returned.
HeightAtApertureValue ==
    (pcP = "done" /\ opP = "height_at_aperture") =>
        IF NumApertures(chain) > 0
        THEN /\ outcome = "returned"
             /\ result = [endPositionsOf |-> pairs[FirstAperture(chain) + 1][2],
                          radiusOf |-> FirstAperture(chain)]
        ELSE /\ outcome = "returned None"
             /\ Len(pairs) = Len(chain) + 2

\* C9: on a chain fit for aiming (one Aperture-typed element; the symmetry of the
\* System is a property of the pupil map, which only the aiming evaluates),
\* chief_and_marginal returns marginals (+x, -x, +y, -y) with +x = -(-x) and
\* +y = -(-y).
MarginalsSymmetric ==
    (pcP = "done" /\ opP = "chief_and_marginal" /\ NumApertures(chain) = 1) =>
        /\ outcome = "returned"
        /\ result.marginal[1] = 0 - result.marginal[2]
        /\ result.marginal[3] = 0 - result.marginal[4]

EventsOf(kind) == {a \in 1..Len(events) : events[a].ev = kind}

\* C6: in every evaluation of the objective function for a vector x, set_value is
\* called for every parameter, in parameter order, before the paraxial trace is
\* recomputed; the trace before any ray bundle is propagated; every bundle
\* before any demerit is evaluated; and no set_value call comes after the trace,
\* so that the trace, the bundles and the demerits all run on the System that
\* holds x.
ObjectiveRunsInOrder ==
    lastX # <<>> =>
        /\ Cardinality(EventsOf("set_value")) = NumParams
        /\ \A i \in 1..NumParams : \E a \in EventsOf("set_value") :
              events[a].arg = i /\ events[a].value = lastX[i]
        /\ \A a, b \in EventsOf("set_value") : a < b => events[a].arg < events[b].arg
        /\ Cardinality(EventsOf("paraxial_trace")) = 1
        /\ Cardinality(EventsOf("propagate_through")) = NumBundles
        /\ \A k \in 1..NumBundles : \E a \in EventsOf("propagate_through") : events[a].arg = k
        /\ Cardinality(EventsOf("demerit")) = NumDemerits
        /\ \A j \in 1..NumDemerits : \E a \in EventsOf("demerit") : events[a].arg = j
        /\ \A a \in EventsOf("set_value"), b \in EventsOf("paraxial_trace") : a < b
        /\ \A a \in EventsOf("paraxial_trace"), b \in EventsOf("propagate_through") : a < b
        /\ \A a \in EventsOf("propagate_through"), b \in EventsOf("demerit") : a < b
        /\ \A a \in 1..Len(events) :
              events[a].ev # "set_value" =>
                  \A i \in 1..NumParams : GetValue(events[a].system, i) = lastX[i]

\* C6's case: the solver has evaluated the objective at a vector other than the
\* one the System held when optimize was called.
ObjectiveRunsInOrderWitness ==
    /\ pcO = "solving"
    /\ lastX # <<>> /\ lastX # val0
    /\ Len(events) = NumParams + 1 + NumBundles + NumDemerits

\* C7: when optimize returns, the value last written for every parameter is that
\* of the vector the solver returned; the triple returned is (x0, x, f) with x0
\* the values read before any set_value call of the run, x the solver's vector
\* and f its final objective value; and the solver was called once.
OptimizeWritesBack ==
    pcO = "returned" =>
        /\ \A i \in 1..NumParams : written[i] = res.xf[i] /\ GetValue(val, i) = res.xf[i]
        /\ ret = <<x0, res.xf, res.ff>>
        /\ x0 = val0
        /\ readAt = 0
        /\ solves = 1

\* C7's case: optimize has returned a vector that is neither the one the solver
\* last evaluated nor the one the System held at the call.
OptimizeWritesBackWitness ==
    /\ pcO = "returned"
    /\ lastX # <<>> /\ lastX # res.xf
    /\ val0 # res.xf

ExpectedMembers(eq) ==
    SelectSeq([k \in 1..Len(equality) |-> k], LAMBDA k : equality[k] = eq)

ExpectedVector(eq) ==
    [i \in 1..Len(ExpectedMembers(eq)) |->
        [constraint |-> ExpectedMembers(eq)[i], system |-> val]]

\* C10: every constraint is a member of exactly one of the two constraint
\* functions, by its equality tag; a function with no member is handed to the
\* solver as None; and a call of either function makes no set_value call and
\* returns, whatever its x, the concatenation of its members evaluated on the
\* System as the most recent parameter write left it, so that calls with no
\* objective evaluation in between return the same vector.
ConstraintsReadOnly ==
    pcO = "solving" =>
        /\ eqs = ExpectedMembers(TRUE)
        /\ ineqs = ExpectedMembers(FALSE)
        /\ Len(eqs) + Len(ineqs) = Len(equality)
        /\ nlp.h = IF ExpectedMembers(TRUE) = <<>> THEN "None" ELSE "equality_constraints"
        /\ nlp.c = IF ExpectedMembers(FALSE) = <<>> THEN "None" ELSE "inequality_constraints"
        /\ conCall.f # "none" =>
              /\ conCall.value = ExpectedVector(conCall.f = "equality_constraints")
              /\ conCall.sets = sets
              /\ conCall.system = val
              /\ conCall.prev.f = conCall.f => conCall.prev.value = conCall.value

\* C10's case: after an objective evaluation, a constraint function that has
\* members was called twice with different x.
ConstraintsReadOnlyWitness ==
    /\ pcO = "solving"
    /\ lastX # <<>>
    /\ conCall.f # "none" /\ conCall.prev.f = conCall.f
    /\ conCall.prev.otherX
    /\ conCall.value # <<>>

====
